---- MODULE Spec2Model ----
(***************************************************************************)
(* TrustNet: the authorization gate protectedRoute(handler, allowedRoles?) *)
(* that wraps a request handler (src/unnamed/part_001, lines 4-31).        *)
(*                                                                         *)
(* One invocation of a guarded handler is followed line by line:           *)
(*   Start      the guarded handler was entered (line 5)                   *)
(*   Verifying  verifyToken(req) returned its result `auth` (line 6)       *)
(*   RoleCheck  the test of line 8 was false                               *)
(*   Authorized the test of line 16 was false                              *)
(*   Bound      req.user was assigned (lines 24-27)                        *)
(*   InHandler  handler(req, ...args) was called (line 29)                 *)
(* and it ends in RejectedAuth (return of line 9), RejectedRole (return of *)
(* line 17) or Delegated (return of line 29).                              *)
(*                                                                         *)
(* A JavaScript object is a record whose DOMAIN holds exactly the          *)
(* properties that are set: reading a property that is not in the DOMAIN   *)
(* yields undefined.                                                       *)
(***************************************************************************)
EXTENDS Integers, Sequences, FiniteSets, TLC

\* How many times one request object is passed to a guarded handler.
MaxInvocations == 2

\* The request objects.
Requests == {"r1"}

\* HTTP status codes and messages written in the gate.
StatusUnauthorized == 401
StatusForbidden == 403
MsgAuthFailed == "Authentication failed"
MsgForbidden == "Forbidden: Access denied"

\* The role strings a credential may carry: the application's three roles
\* and one string outside them.
RoleStrings == {"CUSTOMER", "BUSINESS_OWNER", "ADMIN", "GUEST"}
UserIds == {"u1", "u2"}

\* auth.decoded, when present: the decoded credential.
Claims == [id : UserIds, role : RoleStrings]

\* auth.error, when present: a reason text (not the empty string);
\* auth.status, when present: an HTTP status code (not 0).
ErrorStrings == {"Invalid or expired token"}
Statuses == {401, 403, 500}

\* An object with the properties p, taken from d, e and s.
MkAuth(p, d, e, s) ==
    [f \in p |-> CASE f = "decoded" -> d [] f = "error" -> e [] OTHER -> s]

\* Every result verifyToken(req) can hand to the gate: each of decoded,
\* error and status present or absent, independently.
AuthResults ==
    { MkAuth(p, d, e, s) : p \in SUBSET {"decoded", "error", "status"},
                           d \in Claims, e \in ErrorStrings, s \in Statuses }

\* The guarded handlers: protectedRoute(handler) and
\* protectedRoute(handler, allowedRoles). allowedRoles is an array.
Gates ==
    { [name |-> "anyRole"],
      [name |-> "noRole", allowedRoles |-> << >>],
      [name |-> "adminOnly", allowedRoles |-> <<"ADMIN">>],
      [name |-> "staff", allowedRoles |-> <<"BUSINESS_OWNER", "ADMIN">>] }

\* The extra arguments of a guarded handler (...args).
ArgsSet == { << >>, <<"ctx">> }

\* NextResponse.json(body, { status }).
NextResponseJson(body, status) == [body |-> body, status |-> status]

\* What a wrapped handler may return.
HandlerResults ==
    { NextResponseJson([success |-> TRUE, message |-> "Profile updated successfully"], 200),
      NextResponseJson([success |-> FALSE, message |-> "Update failed"], 500) }

\* No value yet.
NoAuth == [pending |-> TRUE]
NoResponse == [pending |-> TRUE]
NoGate == [name |-> "none"]

\* A fresh request object: it has no `user` property.
FreshRequest(r) == [id |-> r]

VARIABLES
    pc,           \* where each request's invocation stands
    invocations,  \* how many invocations each request object went through
    gate,         \* the guarded handler the request was passed to
    args,         \* the extra arguments of the invocation
    req,          \* the request object
    auth,         \* const auth (line 6)
    verifyCalls,  \* calls of verifyToken in this invocation
    userWrites,   \* assignments to req.user in this invocation
    handlerCalls, \* the calls of the wrapped handler in this invocation
    handlerResult,\* what the wrapped handler returned
    response,     \* what the guarded handler returned
    users,        \* the users table (prisma.user)
    cache,        \* the keys held in redis
    local,        \* the local values of the PATCH handler of each request
    form,         \* the form page the browser shows
    qr,           \* the business QR page
    tables        \* the tables of the database other than users

vars == <<pc, invocations, gate, args, req, auth, verifyCalls, userWrites,
          handlerCalls, handlerResult, response, users, cache, local, form,
          qr, tables>>

\* The state of the browser pages and of the tables the routes above do not
\* touch.
pageVars == <<form, qr, tables>>

\* The state outside the gate: database, cache and the route handler's locals.
routeVars == <<users, cache, local>>

Terminal == {"RejectedAuth", "RejectedRole", "Delegated"}

\* JavaScript truthiness of the values the gate tests.
Has(obj, f) == f \in DOMAIN obj
ErrorTruthy(a) == Has(a, "error") /\ a.error # ""
StatusTruthy(a) == Has(a, "status") /\ a.status # 0
DecodedTruthy(a) == Has(a, "decoded")

\* Variants of line 8 with a plausible slip.
AuthFailed_IgnoresError(a) == ~DecodedTruthy(a)
AuthFailed_ErrorOnly(a) == ErrorTruthy(a)

\* line 8: auth.error || !auth.decoded
AuthFailed(a) == ErrorTruthy(a) \/ ~DecodedTruthy(a)

\* Variant of line 10: the verifier's reason is dropped.
RejectionMessage_Fixed(a) == MsgAuthFailed

\* line 10: auth.error || "Authentication failed"
RejectionMessage(a) == IF ErrorTruthy(a) THEN a.error ELSE MsgAuthFailed

\* Variant of line 11: another default.
RejectionStatus_Default403(a) == IF StatusTruthy(a) THEN a.status ELSE StatusForbidden

\* line 11: auth.status || 401
RejectionStatus(a) == IF StatusTruthy(a) THEN a.status ELSE StatusUnauthorized

\* Variant of includes: only the first element is compared.
Includes_FirstOnly(arr, x) == Len(arr) > 0 /\ arr[1] = x

\* Array.prototype.includes
Includes(arr, x) == \E i \in DOMAIN arr : arr[i] = x

\* Variant of line 16: without an allow-list, only the application's roles pass.
RoleForbidden_KnownOnly(g, a) ==
    IF Has(g, "allowedRoles")
    THEN ~Includes(g.allowedRoles, a.decoded.role)
    ELSE a.decoded.role \notin {"CUSTOMER", "BUSINESS_OWNER", "ADMIN"}

\* Variant of line 16: an empty array is taken as "no allow-list".
RoleForbidden_EmptyIsOpen(g, a) ==
    /\ Has(g, "allowedRoles")
    /\ Len(g.allowedRoles) > 0
    /\ ~Includes(g.allowedRoles, a.decoded.role)

\* line 16: allowedRoles && !allowedRoles.includes(auth.decoded.role)
\* (an array, also an empty one, is truthy)
RoleForbidden(g, a) ==
    Has(g, "allowedRoles") /\ ~Includes(g.allowedRoles, a.decoded.role)

\* lines 24-27: the object assigned to req.user
UserBinding(a) == [id |-> a.decoded.id, role |-> a.decoded.role]

\* obj.f = v
SetField(obj, f, v) ==
    [k \in DOMAIN obj \cup {f} |-> IF k = f THEN v ELSE obj[k]]

\* The value null.
Null == "<null>"

\* The users table at the start: two users with distinct phones
\* (users_phone_key is a unique index).
InitialUsers ==
    [u \in UserIds |->
        IF u = "u1"
        THEN [id |-> "u1", name |-> "Al", phone |-> "9876543210",
              email |-> "al@example.com", role |-> "CUSTOMER"]
        ELSE [id |-> "u2", name |-> "Bo", phone |-> "9123456789",
              email |-> Null, role |-> "ADMIN"]]

\* The redis key of the cached user list.
UsersListKey == "users:list"

\* The PATCH handler's locals before it runs.
NoLocal == [effects |-> << >>]

\* No form page is open.
\* The QR page is not open.
NoQr ==
    [open |-> FALSE, business |-> "<null>", loading |-> TRUE, error |-> "<null>",
     step |-> "Idle", loads |-> 0, failures |-> 0, timers |-> 0, pushes |-> 0]

TableNames ==
    {"businesses", "reviews", "endorsements", "business_analytics",
     "upi_transactions"}

\* Empty tables, and no statement run yet.
NoRows ==
    [businesses |-> {}, reviews |-> {}, endorsements |-> {},
     business_analytics |-> {}, upi_transactions |-> {},
     last |-> [stmt |-> "none", row |-> [f \in {} |-> ""], ok |-> TRUE,
               removed |-> 0]]

\* The object {}.
EmptyObject == [f \in {} |-> ""]

NoForm ==
    [kind |-> "none", formData |-> EmptyObject, saving |-> FALSE, errors |-> EmptyObject,
     step |-> "Idle", sent |-> 0, lastRequest |-> [method |-> "none"],
     pushed |-> "", submits |-> 0]

\* The state before any of the request objects R was passed to a guarded handler.
InitOver(R) ==
    /\ form = NoForm
    /\ qr = NoQr
    /\ tables = NoRows
    /\ users = InitialUsers
    /\ cache \in SUBSET {UsersListKey}
    /\ local = [r \in R |-> NoLocal]
    /\ pc = [r \in R |-> "Idle"]
    /\ invocations = [r \in R |-> 0]
    /\ gate = [r \in R |-> NoGate]
    /\ args = [r \in R |-> << >>]
    /\ req = [r \in R |-> FreshRequest(r)]
    /\ auth = [r \in R |-> NoAuth]
    /\ verifyCalls = [r \in R |-> 0]
    /\ userWrites = [r \in R |-> 0]
    /\ handlerCalls = [r \in R |-> << >>]
    /\ handlerResult = [r \in R |-> NoResponse]
    /\ response = [r \in R |-> NoResponse]

Init == InitOver(Requests)

\* line 5: a guarded handler, one of G, is called with (req, ...args), args in A.
InvokeWith(r, G, A) ==
    /\ pc[r] \in {"Idle", "Faulted"} \cup Terminal
    /\ invocations[r] < MaxInvocations
    /\ \E g \in G, xs \in A :
         /\ gate' = [gate EXCEPT ![r] = g]
         /\ args' = [args EXCEPT ![r] = xs]
    /\ pc' = [pc EXCEPT ![r] = "Start"]
    /\ invocations' = [invocations EXCEPT ![r] = @ + 1]
    /\ auth' = [auth EXCEPT ![r] = NoAuth]
    /\ verifyCalls' = [verifyCalls EXCEPT ![r] = 0]
    /\ userWrites' = [userWrites EXCEPT ![r] = 0]
    /\ handlerCalls' = [handlerCalls EXCEPT ![r] = << >>]
    /\ handlerResult' = [handlerResult EXCEPT ![r] = NoResponse]
    /\ response' = [response EXCEPT ![r] = NoResponse]
    /\ UNCHANGED req

Invoke(r) == InvokeWith(r, Gates, ArgsSet)

\* line 6: const auth = verifyToken(req), the result being one of S
VerifyFrom(r, S) ==
    /\ pc[r] = "Start"
    /\ \E a \in S : auth' = [auth EXCEPT ![r] = a]
    /\ verifyCalls' = [verifyCalls EXCEPT ![r] = @ + 1]
    /\ pc' = [pc EXCEPT ![r] = "Verifying"]
    /\ UNCHANGED <<invocations, gate, args, req, userWrites, handlerCalls,
                   handlerResult, response>>

Verify(r) == VerifyFrom(r, AuthResults)

\* Variant of lines 8-21: the role test is made first, on auth.decoded?.role.
CheckAuth_RoleFirst(r) ==
    /\ pc[r] = "Verifying"
    /\ IF Has(gate[r], "allowedRoles")
          /\ (~DecodedTruthy(auth[r])
               \/ ~Includes(gate[r].allowedRoles, auth[r].decoded.role))
       THEN /\ response' = [response EXCEPT ![r] =
                  NextResponseJson([success |-> FALSE, message |-> MsgForbidden],
                                   StatusForbidden)]
            /\ pc' = [pc EXCEPT ![r] = "RejectedRole"]
       ELSE IF AuthFailed(auth[r])
       THEN /\ response' = [response EXCEPT ![r] =
                  NextResponseJson([success |-> FALSE,
                                    message |-> RejectionMessage(auth[r])],
                                   RejectionStatus(auth[r]))]
            /\ pc' = [pc EXCEPT ![r] = "RejectedAuth"]
       ELSE /\ pc' = [pc EXCEPT ![r] = "RoleCheck"]
            /\ UNCHANGED response
    /\ UNCHANGED <<invocations, gate, args, req, auth, verifyCalls, userWrites,
                   handlerCalls, handlerResult>>

\* Variant of lines 8-13: a failed verification is tried again.
CheckAuth_Retries(r) ==
    /\ pc[r] = "Verifying"
    /\ IF AuthFailed(auth[r])
       THEN pc' = [pc EXCEPT ![r] = "Start"]
       ELSE pc' = [pc EXCEPT ![r] = "RoleCheck"]
    /\ UNCHANGED <<invocations, gate, args, req, auth, verifyCalls, userWrites,
                   handlerCalls, handlerResult, response>>

\* Variant of lines 8-13: the identity is bound as soon as it is decoded.
CheckAuth_BindsFirst(r) ==
    /\ pc[r] = "Verifying"
    /\ IF DecodedTruthy(auth[r])
       THEN /\ req' = [req EXCEPT ![r] = SetField(@, "user", UserBinding(auth[r]))]
            /\ userWrites' = [userWrites EXCEPT ![r] = @ + 1]
       ELSE UNCHANGED <<req, userWrites>>
    /\ IF AuthFailed(auth[r])
       THEN /\ response' = [response EXCEPT ![r] =
                  NextResponseJson([success |-> FALSE,
                                    message |-> RejectionMessage(auth[r])],
                                   RejectionStatus(auth[r]))]
            /\ pc' = [pc EXCEPT ![r] = "RejectedAuth"]
       ELSE /\ pc' = [pc EXCEPT ![r] = "RoleCheck"]
            /\ UNCHANGED response
    /\ UNCHANGED <<invocations, gate, args, auth, verifyCalls, handlerCalls,
                   handlerResult>>

\* Variant of lines 8-13: a failed verification is thrown, not returned.
CheckAuth_Throws(r) ==
    /\ pc[r] = "Verifying"
    /\ IF AuthFailed(auth[r])
       THEN /\ response' = [response EXCEPT ![r] = [thrown |-> RejectionMessage(auth[r])]]
            /\ pc' = [pc EXCEPT ![r] = "Faulted"]
       ELSE /\ pc' = [pc EXCEPT ![r] = "RoleCheck"]
            /\ UNCHANGED response
    /\ UNCHANGED <<invocations, gate, args, req, auth, verifyCalls, userWrites,
                   handlerCalls, handlerResult>>

\* Variant of lines 8-13: a request object is let through only once.
CheckAuth_CountsAttempts(r) ==
    /\ pc[r] = "Verifying"
    /\ IF AuthFailed(auth[r]) \/ invocations[r] > 1
       THEN /\ response' = [response EXCEPT ![r] =
                  NextResponseJson([success |-> FALSE,
                                    message |-> RejectionMessage(auth[r])],
                                   RejectionStatus(auth[r]))]
            /\ pc' = [pc EXCEPT ![r] = "RejectedAuth"]
       ELSE /\ pc' = [pc EXCEPT ![r] = "RoleCheck"]
            /\ UNCHANGED response
    /\ UNCHANGED <<invocations, gate, args, req, auth, verifyCalls, userWrites,
                   handlerCalls, handlerResult>>

\* lines 8-13
CheckAuth(r) ==
    /\ pc[r] = "Verifying"
    /\ IF AuthFailed(auth[r])
       THEN /\ response' = [response EXCEPT ![r] =
                  NextResponseJson([success |-> FALSE,
                                    message |-> RejectionMessage(auth[r])],
                                   RejectionStatus(auth[r]))]
            /\ pc' = [pc EXCEPT ![r] = "RejectedAuth"]
       ELSE /\ pc' = [pc EXCEPT ![r] = "RoleCheck"]
            /\ UNCHANGED response
    /\ UNCHANGED <<invocations, gate, args, req, auth, verifyCalls, userWrites,
                   handlerCalls, handlerResult>>

\* Variant of lines 15-27: req.user is assigned before the role test.
CheckRole_BindsFirst(r) ==
    /\ pc[r] = "RoleCheck"
    /\ req' = [req EXCEPT ![r] = SetField(@, "user", UserBinding(auth[r]))]
    /\ userWrites' = [userWrites EXCEPT ![r] = @ + 1]
    /\ IF RoleForbidden(gate[r], auth[r])
       THEN /\ response' = [response EXCEPT ![r] =
                  NextResponseJson([success |-> FALSE, message |-> MsgForbidden],
                                   StatusForbidden)]
            /\ pc' = [pc EXCEPT ![r] = "RejectedRole"]
       ELSE /\ pc' = [pc EXCEPT ![r] = "Authorized"]
            /\ UNCHANGED response
    /\ UNCHANGED <<invocations, gate, args, auth, verifyCalls, handlerCalls,
                   handlerResult>>

\* lines 15-21
CheckRole(r) ==
    /\ pc[r] = "RoleCheck"
    /\ IF RoleForbidden(gate[r], auth[r])
       THEN /\ response' = [response EXCEPT ![r] =
                  NextResponseJson([success |-> FALSE, message |-> MsgForbidden],
                                   StatusForbidden)]
            /\ pc' = [pc EXCEPT ![r] = "RejectedRole"]
       ELSE /\ pc' = [pc EXCEPT ![r] = "Authorized"]
            /\ UNCHANGED response
    /\ UNCHANGED <<invocations, gate, args, req, auth, verifyCalls, userWrites,
                   handlerCalls, handlerResult>>

\* Variant of lines 6-27: `auth` is kept outside the closure, so the identity
\* bound may be the one another invocation decoded.
Bind_Shared(r) ==
    /\ pc[r] = "Authorized"
    /\ \E s \in DOMAIN pc :
         /\ DecodedTruthy(auth[s])
         /\ req' = [req EXCEPT ![r] = SetField(@, "user", UserBinding(auth[s]))]
    /\ userWrites' = [userWrites EXCEPT ![r] = @ + 1]
    /\ pc' = [pc EXCEPT ![r] = "Bound"]
    /\ UNCHANGED <<invocations, gate, args, auth, verifyCalls, handlerCalls,
                   handlerResult, response>>

\* lines 24-27: req.user = { id, role }
Bind(r) ==
    /\ pc[r] = "Authorized"
    /\ req' = [req EXCEPT ![r] = SetField(@, "user", UserBinding(auth[r]))]
    /\ userWrites' = [userWrites EXCEPT ![r] = @ + 1]
    /\ pc' = [pc EXCEPT ![r] = "Bound"]
    /\ UNCHANGED <<invocations, gate, args, auth, verifyCalls, handlerCalls,
                   handlerResult, response>>

\* The arguments of the call of line 29: handler(req, ...args)
HandlerCall(r) == [request |-> r, req |-> req[r], args |-> args[r]]

\* line 29: the wrapped handler is called
Delegate(r) ==
    /\ pc[r] = "Bound"
    /\ handlerCalls' = [handlerCalls EXCEPT ![r] = Append(@, HandlerCall(r))]
    /\ pc' = [pc EXCEPT ![r] = "InHandler"]
    /\ UNCHANGED <<invocations, gate, args, req, auth, verifyCalls, userWrites,
                   handlerResult, response>>

\* line 29: what the guarded handler returns, given the wrapped handler's result
GateReturn(res) == res

\* Variant of line 29: req.user is removed once the wrapped handler is done.
HandlerReturn_ClearsUser(r) ==
    /\ pc[r] = "InHandler"
    /\ \E res \in HandlerResults :
         /\ handlerResult' = [handlerResult EXCEPT ![r] = res]
         /\ response' = [response EXCEPT ![r] = GateReturn(res)]
    /\ req' = [req EXCEPT ![r] = [k \in DOMAIN @ \ {"user"} |-> @[k]]]
    /\ pc' = [pc EXCEPT ![r] = "Delegated"]
    /\ UNCHANGED <<invocations, gate, args, auth, verifyCalls, userWrites,
                   handlerCalls>>

\* line 29: the wrapped handler returns and the guarded handler returns its result
HandlerReturn(r) ==
    /\ pc[r] = "InHandler"
    /\ \E res \in HandlerResults :
         /\ handlerResult' = [handlerResult EXCEPT ![r] = res]
         /\ response' = [response EXCEPT ![r] = GateReturn(res)]
    /\ pc' = [pc EXCEPT ![r] = "Delegated"]
    /\ UNCHANGED <<invocations, gate, args, req, auth, verifyCalls, userWrites,
                   handlerCalls>>

Next ==
    \E r \in Requests :
        \/ Invoke(r) /\ UNCHANGED <<routeVars, pageVars>>
        \/ Verify(r) /\ UNCHANGED <<routeVars, pageVars>>
        \/ CheckAuth(r) /\ UNCHANGED <<routeVars, pageVars>>
        \/ CheckRole(r) /\ UNCHANGED <<routeVars, pageVars>>
        \/ Bind(r) /\ UNCHANGED <<routeVars, pageVars>>
        \/ Delegate(r) /\ UNCHANGED <<routeVars, pageVars>>
        \/ HandlerReturn(r) /\ UNCHANGED <<routeVars, pageVars>>

(***************************************************************************)
(* Faults. The guarded handler is an async function without try/catch      *)
(* (lines 5-30): what verifyToken or the wrapped handler throws leaves it  *)
(* as it is (the returned promise rejects with it). Faulted is the end of  *)
(* such an invocation.                                                     *)
(***************************************************************************)
ThrownErrors == {"Error: JWT_SECRET is not set", "Error: database unreachable"}

\* Variant: the guarded handler catches and answers 401.
Propagate_Recovered(e) ==
    NextResponseJson([success |-> FALSE, message |-> MsgAuthFailed], StatusUnauthorized)

\* lines 5-30: no try/catch; the error thrown is the outcome of the invocation
Propagate(e) == [thrown |-> e]

\* Variant of line 6: a throwing verifier is answered like a failed verification.
VerifierThrow_Recovers(r) ==
    /\ pc[r] = "Start"
    /\ verifyCalls' = [verifyCalls EXCEPT ![r] = @ + 1]
    /\ response' = [response EXCEPT ![r] =
          NextResponseJson([success |-> FALSE, message |-> MsgAuthFailed],
                           StatusUnauthorized)]
    /\ pc' = [pc EXCEPT ![r] = "RejectedAuth"]
    /\ UNCHANGED <<invocations, gate, args, req, auth, userWrites, handlerCalls,
                   handlerResult>>

\* line 6: verifyToken(req) throws
VerifierThrow(r) ==
    /\ pc[r] = "Start"
    /\ verifyCalls' = [verifyCalls EXCEPT ![r] = @ + 1]
    /\ \E e \in ThrownErrors : response' = [response EXCEPT ![r] = Propagate(e)]
    /\ pc' = [pc EXCEPT ![r] = "Faulted"]
    /\ UNCHANGED <<invocations, gate, args, req, auth, userWrites, handlerCalls,
                   handlerResult>>

\* line 29: the wrapped handler throws (or the promise it returned rejects)
HandlerThrow(r) ==
    /\ pc[r] = "InHandler"
    /\ \E e \in ThrownErrors :
         /\ handlerResult' = [handlerResult EXCEPT ![r] = [thrown |-> e]]
         /\ response' = [response EXCEPT ![r] = Propagate(e)]
    /\ pc' = [pc EXCEPT ![r] = "Faulted"]
    /\ UNCHANGED <<invocations, gate, args, req, auth, verifyCalls, userWrites,
                   handlerCalls>>

NextFault ==
    \E r \in Requests :
        \/ Invoke(r) /\ UNCHANGED <<routeVars, pageVars>>
        \/ Verify(r) /\ UNCHANGED <<routeVars, pageVars>>
        \/ VerifierThrow(r) /\ UNCHANGED <<routeVars, pageVars>>
        \/ CheckAuth(r) /\ UNCHANGED <<routeVars, pageVars>>
        \/ CheckRole(r) /\ UNCHANGED <<routeVars, pageVars>>
        \/ Bind(r) /\ UNCHANGED <<routeVars, pageVars>>
        \/ Delegate(r) /\ UNCHANGED <<routeVars, pageVars>>
        \/ HandlerReturn(r) /\ UNCHANGED <<routeVars, pageVars>>
        \/ HandlerThrow(r) /\ UNCHANGED <<routeVars, pageVars>>

SpecFault == Init /\ [][NextFault]_vars

Spec == Init /\ [][Next]_vars

(***************************************************************************)
(* Concurrent requests. JavaScript runs one task at a time and a task      *)
(* gives way only at an await. The guarded handler holds no await (lines   *)
(* 5-29: verifyToken is called, not awaited), so from its entry to the     *)
(* call of the wrapped handler it runs without another request's code in   *)
(* between; the wrapped handler is asynchronous, and other requests run    *)
(* while it is pending.                                                    *)
(***************************************************************************)
ConcRequests == {"r1", "r2"}
ConcGates == { g \in Gates : g.name \in {"anyRole", "adminOnly"} }
ConcArgs == { << >> }
ConcAuthResults ==
    { a \in AuthResults :
        /\ ~Has(a, "status")
        /\ Has(a, "decoded") =>
             a.decoded \in { [id |-> "u1", role |-> "CUSTOMER"],
                             [id |-> "u2", role |-> "ADMIN"] } }

\* Variant: an await stands between the assignment of req.user and the call.
GateSuspensionPoints_AfterBind == {"Bound"}

\* lines 5-29: the positions inside the gate's own code where it awaits
GateSuspensionPoints == {}

\* Request s is not in the middle of a synchronous run.
AtRest(s) ==
    pc[s] \in {"Idle", "InHandler", "Faulted"} \cup Terminal \cup GateSuspensionPoints

\* The task of request r may run: no other task is in the middle of a run.
CanRun(r) == \A s \in DOMAIN pc \ {r} : AtRest(s)

InitConc == InitOver(ConcRequests)

NextConc ==
    \E r \in ConcRequests :
        \/ CanRun(r) /\ InvokeWith(r, ConcGates, ConcArgs) /\ UNCHANGED <<routeVars, pageVars>>
        \/ CanRun(r) /\ VerifyFrom(r, ConcAuthResults) /\ UNCHANGED <<routeVars, pageVars>>
        \/ CanRun(r) /\ CheckAuth(r) /\ UNCHANGED <<routeVars, pageVars>>
        \/ CanRun(r) /\ CheckRole(r) /\ UNCHANGED <<routeVars, pageVars>>
        \/ CanRun(r) /\ Bind(r) /\ UNCHANGED <<routeVars, pageVars>>
        \/ CanRun(r) /\ Delegate(r) /\ UNCHANGED <<routeVars, pageVars>>
        \/ CanRun(r) /\ HandlerReturn(r) /\ UNCHANGED <<routeVars, pageVars>>

SpecConc == InitConc /\ [][NextConc]_vars

(***************************************************************************)
(* The vocabulary of the properties, written on the state alone.           *)
(***************************************************************************)
DecodedGiven(r) == "decoded" \in DOMAIN auth[r]
ErrorGiven(r) == "error" \in DOMAIN auth[r]
StatusGiven(r) == "status" \in DOMAIN auth[r]
ListGiven(r) == "allowedRoles" \in DOMAIN gate[r]
Members(arr) == { arr[i] : i \in 1..Len(arr) }
RolePermitted(r) ==
    ~ListGiven(r) \/ auth[r].decoded.role \in Members(gate[r].allowedRoles)
HandlerInvoked(r) == Len(handlerCalls[r]) > 0
Ended(r) == pc[r] \in {"RejectedAuth", "RejectedRole", "Delegated"}
Verified(r) == pc[r] \notin {"Idle", "Start"}
Rejection(msg, status) == [body |-> [success |-> FALSE, message |-> msg], status |-> status]

\* C1 (as stated): the wrapped handler is invoked if and only if the verifier
\* produced a decoded Claims value and (allowedRoles was not given or the
\* decoded role is a member of it), for every verifier result.
C1_InvokedIffDecodedAndPermitted ==
    \A r \in Requests :
        /\ HandlerInvoked(r) => DecodedGiven(r) /\ RolePermitted(r)
        /\ Ended(r) /\ DecodedGiven(r) /\ RolePermitted(r) => HandlerInvoked(r)

\* C1 (amended): the wrapped handler is invoked if and only if the verifier
\* produced a decoded Claims value and no error string, and (allowedRoles was
\* not given or the decoded role is a member of it).
C1_InvokedIffDecodedNoErrorAndPermitted ==
    \A r \in Requests :
        /\ HandlerInvoked(r) => DecodedGiven(r) /\ ~ErrorGiven(r) /\ RolePermitted(r)
        /\ Ended(r) /\ DecodedGiven(r) /\ ~ErrorGiven(r) /\ RolePermitted(r)
             => HandlerInvoked(r)

\* C1 witness: under an allow-list of two roles, a decoded ADMIN was let through
\* to the handler.
C1_Witness ==
    \E r \in Requests :
        /\ Ended(r) /\ HandlerInvoked(r) /\ ListGiven(r) /\ DecodedGiven(r)
        /\ Len(gate[r].allowedRoles) = 2
        /\ auth[r].decoded.role = "ADMIN"

\* C2: when verification fails (no decoded value, or an error string), the
\* response has success:false, the verifier's error string as message, or
\* "Authentication failed" when there is none, and the verifier's status, or 401
\* when there is none; the wrapped handler is not invoked.
C2_AuthRejection ==
    \A r \in Requests :
        Ended(r) /\ (~DecodedGiven(r) \/ ErrorGiven(r)) =>
            /\ response[r] =
                 Rejection(IF ErrorGiven(r) THEN auth[r].error ELSE "Authentication failed",
                           IF StatusGiven(r) THEN auth[r].status ELSE 401)
            /\ ~HandlerInvoked(r)

\* C2 witness: a failed verification that carried a reason and a status.
C2_Witness ==
    \E r \in Requests :
        /\ Ended(r) /\ ~DecodedGiven(r) /\ ErrorGiven(r) /\ StatusGiven(r)
        /\ response[r].body.message = auth[r].error
        /\ response[r].status = 500

\* C3: when verification succeeds, allowedRoles is given and the decoded role is
\* not a member of it, the response is {success:false, message:"Forbidden:
\* Access denied"} with status 403 and the wrapped handler is not invoked.
C3_RoleRejection ==
    \A r \in Requests :
        Ended(r) /\ DecodedGiven(r) /\ ~ErrorGiven(r) /\ ~RolePermitted(r) =>
            /\ response[r] = Rejection("Forbidden: Access denied", 403)
            /\ ~HandlerInvoked(r)

\* C3 witness: scenario 2 of the specification, and the same under an empty list.
C3_Witness ==
    \E r \in Requests :
        /\ Ended(r) /\ DecodedGiven(r) /\ ~ErrorGiven(r)
        /\ auth[r].decoded = [id |-> "u2", role |-> "CUSTOMER"]
        /\ ListGiven(r) /\ gate[r].allowedRoles = <<"ADMIN">>
        /\ response[r].status = 403

\* C4: when verification succeeds and the role is permitted, the wrapped handler
\* is invoked exactly once, with the same request and the same extra arguments,
\* the request's user.id and user.role being those of the decoded Claims, and the
\* guarded handler returns the handler's result unchanged.
C4_Delegation ==
    \A r \in Requests :
        Ended(r) /\ DecodedGiven(r) /\ ~ErrorGiven(r) /\ RolePermitted(r) =>
            /\ Len(handlerCalls[r]) = 1
            /\ handlerCalls[r][1].request = r
            /\ handlerCalls[r][1].args = args[r]
            /\ "user" \in DOMAIN handlerCalls[r][1].req
            /\ handlerCalls[r][1].req.user.id = auth[r].decoded.id
            /\ handlerCalls[r][1].req.user.role = auth[r].decoded.role
            /\ handlerResult[r] \in HandlerResults
            /\ response[r] = handlerResult[r]

\* C4 witness: scenario 1 of the specification, with an extra argument.
C4_Witness ==
    \E r \in Requests :
        /\ pc[r] = "Delegated" /\ ~ListGiven(r)
        /\ auth[r].decoded = [id |-> "u1", role |-> "CUSTOMER"]
        /\ handlerCalls[r][1].req.user = [id |-> "u1", role |-> "CUSTOMER"]
        /\ args[r] = <<"ctx">>
        /\ response[r].status = 200

\* C5: the credential check comes before the role check: a failed verification
\* ends in the authentication rejection (status 401 when the verifier gave none)
\* whatever allowedRoles holds, and the role rejection is never produced without
\* a decoded Claims value.
C5_AuthBeforeRole ==
    \A r \in Requests :
        /\ pc[r] \in {"RoleCheck", "RejectedRole"} => DecodedGiven(r) /\ ~ErrorGiven(r)
        /\ Ended(r) /\ (~DecodedGiven(r) \/ ErrorGiven(r)) =>
             /\ pc[r] = "RejectedAuth"
             /\ response[r].body.message # "Forbidden: Access denied"
             /\ ~StatusGiven(r) => response[r].status = 401

\* C5 witness: scenario 3 of the specification.
C5_Witness ==
    \E r \in Requests :
        /\ pc[r] = "RejectedAuth"
        /\ DOMAIN auth[r] = {}
        /\ ListGiven(r) /\ gate[r].allowedRoles = <<"ADMIN">>
        /\ response[r] = Rejection("Authentication failed", 401)

\* C6 (as stated): every rejection response has the body {success:false,
\* message:<string>} and a status that is 401 or 403, for every status the
\* verifier can return with a failure.
C6_RejectionStatus401Or403 ==
    \A r \in Requests :
        pc[r] \in {"RejectedAuth", "RejectedRole"} =>
            /\ DOMAIN response[r].body = {"success", "message"}
            /\ response[r].body.success = FALSE
            /\ response[r].body.message \in STRING
            /\ response[r].status \in {401, 403}

\* C6 (amended): every rejection response has the body {success:false,
\* message:<string>}; its status is 403 for a role rejection and, for an
\* authentication rejection, the verifier's status when it gave one and 401
\* otherwise.
C6_RejectionShape ==
    \A r \in Requests :
        pc[r] \in {"RejectedAuth", "RejectedRole"} =>
            /\ DOMAIN response[r] = {"body", "status"}
            /\ DOMAIN response[r].body = {"success", "message"}
            /\ response[r].body.success = FALSE
            /\ response[r].body.message \in STRING
            /\ response[r].status =
                 IF DecodedGiven(r) /\ ~ErrorGiven(r) THEN 403
                 ELSE IF StatusGiven(r) THEN auth[r].status ELSE 401

\* C6 witness: an authentication rejection that carries the verifier's 500.
C6_Witness ==
    \E r \in Requests :
        /\ pc[r] = "RejectedAuth" /\ StatusGiven(r)
        /\ auth[r].status = 500
        /\ response[r].status = 500
        /\ response[r].body.success = FALSE

\* C7: the gate's only state change is one assignment of req.user, made on the
\* authorized path: no step of a rejected invocation changes the request, an
\* authorized invocation assigns req.user exactly once, and the assignment
\* leaves the request's other properties as they were.
C7_RejectedNoWrite ==
    \A r \in Requests :
        /\ pc[r] \in {"Start", "Verifying", "RoleCheck", "Authorized",
                      "RejectedAuth", "RejectedRole"} => userWrites[r] = 0
        /\ pc[r] \in {"Bound", "InHandler", "Delegated"} =>
             /\ userWrites[r] = 1
             /\ "user" \in DOMAIN req[r]
             /\ req[r].user = [id |-> auth[r].decoded.id, role |-> auth[r].decoded.role]

C7_WriteStep ==
    \A r \in Requests :
        /\ req'[r] # req[r] => userWrites'[r] = userWrites[r] + 1
        /\ userWrites'[r] = userWrites[r] + 1 =>
             /\ pc[r] = "Authorized" /\ pc'[r] = "Bound"
             /\ DOMAIN req'[r] = DOMAIN req[r] \cup {"user"}
             /\ \A f \in DOMAIN req[r] \ {"user"} : req'[r][f] = req[r][f]
        /\ pc[r] \in {"RejectedAuth", "RejectedRole"} => req'[r] = req[r]

C7_OnlyIdentityWrite == [](C7_RejectedNoWrite) /\ [][C7_WriteStep]_vars

\* C7 witness: a request that carried an identity from an earlier invocation was
\* rejected with 403 and still carries that identity.
C7_Witness ==
    \E r \in Requests :
        /\ pc[r] = "RejectedRole" /\ invocations[r] = 2
        /\ "user" \in DOMAIN req[r]
        /\ req[r].user # [id |-> auth[r].decoded.id, role |-> auth[r].decoded.role]
        /\ userWrites[r] = 0

\* The states of the specification's machine, read off the position in the code.
Phase(p) ==
    CASE p \in {"Verifying", "RoleCheck"} -> "Verifying"
      [] p \in {"Authorized", "Bound", "InHandler"} -> "Authorized"
      [] OTHER -> p

PhaseEdges ==
    { <<"Idle", "Start">>, <<"Start", "Verifying">>,
      <<"Verifying", "RejectedAuth">>, <<"Verifying", "RejectedRole">>,
      <<"Verifying", "Authorized">>, <<"Authorized", "Delegated">>,
      <<"RejectedAuth", "Start">>, <<"RejectedRole", "Start">>,
      <<"Delegated", "Start">> }

\* The three outcomes, as an observer of the invocation sees them.
OutcomeAuthRejected(r) ==
    /\ ~DecodedGiven(r) \/ ErrorGiven(r)
    /\ DOMAIN response[r] = {"body", "status"}
    /\ response[r].body.success = FALSE
    /\ userWrites[r] = 0 /\ handlerCalls[r] = << >> /\ handlerResult[r] = NoResponse
OutcomeRoleRejected(r) ==
    /\ DecodedGiven(r) /\ ~ErrorGiven(r)
    /\ response[r] = Rejection("Forbidden: Access denied", 403)
    /\ userWrites[r] = 0 /\ handlerCalls[r] = << >> /\ handlerResult[r] = NoResponse
OutcomeDelegated(r) ==
    /\ DecodedGiven(r) /\ ~ErrorGiven(r)
    /\ userWrites[r] = 1 /\ Len(handlerCalls[r]) = 1
    /\ handlerResult[r] \in HandlerResults
    /\ response[r] = handlerResult[r]

\* The steps of the invocation on request r.
StepOf(r) ==
    Verify(r) \/ CheckAuth(r) \/ CheckRole(r) \/ Bind(r) \/ Delegate(r) \/ HandlerReturn(r)

C8_Outcomes ==
    \A r \in Requests :
        /\ Ended(r) =>
             Cardinality({ o \in {"auth", "role", "delegated"} :
                             \/ o = "auth" /\ OutcomeAuthRejected(r)
                             \/ o = "role" /\ OutcomeRoleRejected(r)
                             \/ o = "delegated" /\ OutcomeDelegated(r) }) = 1
        /\ pc[r] = "RejectedAuth" => OutcomeAuthRejected(r)
        /\ pc[r] = "RejectedRole" => OutcomeRoleRejected(r)
        /\ pc[r] = "Delegated" => OutcomeDelegated(r)
        /\ pc[r] \notin {"Idle", "RejectedAuth", "RejectedRole", "Delegated"} =>
             /\ response[r] = NoResponse
             /\ ENABLED StepOf(r)

C8_Edges ==
    \A r \in Requests :
        Phase(pc'[r]) # Phase(pc[r]) => <<Phase(pc[r]), Phase(pc'[r])>> \in PhaseEdges

\* C8: each invocation goes Start -> Verifying and then ends in exactly one of
\* three outcomes: rejected at the authentication step, rejected with 403 at the
\* role step, or authorized and delegated to the wrapped handler. It does not
\* end anywhere between them: a position that is not one of the three has
\* returned nothing and has a next step.
C8_StateMachine == [](C8_Outcomes) /\ [][C8_Edges]_vars

\* C8 witness: a request object went through two invocations, and the second
\* ended delegated after the identity was bound.
C8_Witness ==
    \E r \in Requests :
        /\ invocations[r] = 2 /\ pc[r] = "Delegated"
        /\ OutcomeDelegated(r)
        /\ ListGiven(r)

\* C9: no retry: in one invocation verifyToken is called exactly once, and after
\* a rejection the gate calls neither the verifier nor the wrapped handler
\* again (only a new invocation by the caller does).
C9_OneVerification ==
    \A r \in Requests :
        /\ pc[r] = "Start" => verifyCalls[r] = 0
        /\ pc[r] \notin {"Idle", "Start"} => verifyCalls[r] = 1
        /\ pc[r] \in {"RejectedAuth", "RejectedRole"} => handlerCalls[r] = << >>

C9_AfterRejection ==
    \A r \in Requests :
        pc[r] \in {"RejectedAuth", "RejectedRole"} =>
            \/ /\ pc'[r] = pc[r]
               /\ verifyCalls'[r] = verifyCalls[r]
               /\ handlerCalls'[r] = handlerCalls[r]
               /\ response'[r] = response[r]
            \/ /\ pc'[r] = "Start"
               /\ invocations'[r] = invocations[r] + 1

C9_NoRetry == [](C9_OneVerification) /\ [][C9_AfterRejection]_vars

\* C9 witness: a rejected invocation during which the verifier was called once.
C9_Witness ==
    \E r \in Requests :
        /\ pc[r] = "RejectedAuth" /\ verifyCalls[r] = 1
        /\ handlerCalls[r] = << >>
        /\ invocations[r] = 1

\* C10: a verifier result without a decoded value is an authentication failure
\* whether or not error and status are populated: the role test is not reached,
\* the wrapped handler is not invoked, and with error and status both absent
\* the response is status 401 with message "Authentication failed".
C10_NoDecodedIsFailure ==
    \A r \in Requests :
        Verified(r) /\ pc[r] # "Verifying" /\ ~DecodedGiven(r) =>
            /\ pc[r] = "RejectedAuth"
            /\ ~HandlerInvoked(r)
            /\ response[r].body.success = FALSE
            /\ ~ErrorGiven(r) /\ ~StatusGiven(r) =>
                 response[r] = Rejection("Authentication failed", 401)

\* C10 witness: a result that holds only a status was rejected with that status
\* and the default message.
C10_Witness ==
    \E r \in Requests :
        /\ pc[r] = "RejectedAuth"
        /\ DOMAIN auth[r] = {"status"}
        /\ response[r] = Rejection("Authentication failed", 403)

\* C11 (as stated): without allowedRoles every request with a decoded Claims
\* value is authorized whatever its role string; with allowedRoles a decoded
\* role that is not a member, an unknown role string included, is rejected
\* with 403.
C11_DecodedRoleDecides ==
    \A r \in Requests :
        Ended(r) /\ DecodedGiven(r) =>
            IF RolePermitted(r)
            THEN ListGiven(r) \/ (pc[r] = "Delegated" /\ HandlerInvoked(r))
            ELSE response[r] = Rejection("Forbidden: Access denied", 403)

\* C11 (amended): the same for every request whose verification gave a decoded
\* Claims value and no error string.
C11_VerifiedRoleDecides ==
    \A r \in Requests :
        Ended(r) /\ DecodedGiven(r) /\ ~ErrorGiven(r) =>
            IF RolePermitted(r)
            THEN ListGiven(r) \/ (pc[r] = "Delegated" /\ HandlerInvoked(r))
            ELSE /\ response[r] = Rejection("Forbidden: Access denied", 403)
                 /\ ~HandlerInvoked(r)

\* C11 witness: a role string outside the application's roles was let through
\* by a gate without an allow-list.
C11_Witness ==
    \E r \in Requests :
        /\ pc[r] = "Delegated" /\ ~ListGiven(r) /\ DecodedGiven(r)
        /\ auth[r].decoded.role = "GUEST"
        /\ handlerCalls[r][1].req.user.role = "GUEST"

(***************************************************************************)
(* Faults (SpecFault).                                                     *)
(***************************************************************************)
VerifierReturned(r) == auth[r] # NoAuth
VerifierThrew(r) == pc[r] = "Faulted" /\ auth[r] = NoAuth /\ verifyCalls[r] = 1
HandlerThrew(r) == "thrown" \in DOMAIN handlerResult[r]
IsThrown(x) == DOMAIN x = {"thrown"}
IsReturnedRejection(x) ==
    /\ DOMAIN x = {"body", "status"}
    /\ DOMAIN x.body = {"success", "message"}
    /\ x.body.success = FALSE

\* C12: for an expected authorization failure (the verifier returned a failure
\* record, or the role is not permitted) the guarded handler returns a
\* rejection response and does not throw; an error leaves the guarded handler
\* only when the verifier threw or the wrapped handler threw.
C12_RejectionIsReturned ==
    \A r \in Requests :
        /\ /\ VerifierReturned(r)
           /\ pc[r] \notin {"Verifying", "RoleCheck"}
           /\ (~DecodedGiven(r) \/ ErrorGiven(r) \/ ~RolePermitted(r))
           => /\ pc[r] \in {"RejectedAuth", "RejectedRole"}
              /\ IsReturnedRejection(response[r])
        /\ (pc[r] = "Faulted" \/ IsThrown(response[r])) =>
              /\ pc[r] = "Faulted" /\ IsThrown(response[r])
              /\ \/ VerifierThrew(r) /\ handlerCalls[r] = << >>
                 \/ /\ HandlerThrew(r) /\ Len(handlerCalls[r]) = 1
                    /\ VerifierReturned(r) /\ DecodedGiven(r) /\ ~ErrorGiven(r)
                    /\ RolePermitted(r)

\* C12 witness: where verifier and handler may throw, a role that is not
\* permitted was answered with a returned 403.
C12_Witness ==
    \E r \in Requests :
        /\ pc[r] = "RejectedRole" /\ VerifierReturned(r) /\ ~RolePermitted(r)
        /\ IsReturnedRejection(response[r])
        /\ response[r].status = 403

C13_PassThrough ==
    \A r \in Requests :
        /\ HandlerThrew(r) =>
             /\ pc[r] = "Faulted"
             /\ response[r] = handlerResult[r]
             /\ Len(handlerCalls[r]) = 1
        /\ pc[r] = "Delegated" =>
             /\ handlerResult[r] \in HandlerResults
             /\ response[r] = handlerResult[r]
             /\ Len(handlerCalls[r]) = 1

C13_NoSecondCall ==
    \A r \in Requests :
        Len(handlerCalls[r]) >= 1 => Len(handlerCalls'[r]) <= 1

\* C13: a failure of the wrapped handler after authorization, a thrown error or
\* an error response, passes through the gate unchanged: it is not caught, not
\* replaced by a 401/403 rejection, and the handler is not invoked again.
C13_HandlerFailureUntouched == [](C13_PassThrough) /\ [][C13_NoSecondCall]_vars

\* C13 witness: the wrapped handler threw and the same error left the guarded
\* handler.
C13_Witness ==
    \E r \in Requests :
        /\ pc[r] = "Faulted" /\ HandlerThrew(r)
        /\ response[r] = [thrown |-> "Error: database unreachable"]
        /\ Len(handlerCalls[r]) = 1

C14_FaultNotRejection ==
    \A r \in Requests :
        /\ pc[r] \in {"RejectedAuth", "RejectedRole"} => VerifierReturned(r)
        /\ pc[r] \notin {"Idle", "Start"} /\ ~VerifierReturned(r) =>
             /\ pc[r] = "Faulted"
             /\ IsThrown(response[r])
             /\ response[r].thrown \in ThrownErrors
             /\ handlerCalls[r] = << >> /\ handlerResult[r] = NoResponse
             /\ userWrites[r] = 0
             /\ invocations[r] = 1 => "user" \notin DOMAIN req[r]

C14_FaultStep ==
    \A r \in Requests :
        pc[r] = "Start" /\ pc'[r] = "Faulted" => req'[r] = req[r]

\* C14: when the token verifier throws, the error leaves the guarded handler as
\* a fault, not as a 401/403 rejection response; the wrapped handler is not
\* invoked and req.user is not written.
C14_VerifierFaultPropagates == [](C14_FaultNotRejection) /\ [][C14_FaultStep]_vars

\* C14 witness: the verifier threw on a fresh request.
C14_Witness ==
    \E r \in Requests :
        /\ VerifierThrew(r) /\ invocations[r] = 1
        /\ response[r] = [thrown |-> "Error: JWT_SECRET is not set"]
        /\ "user" \notin DOMAIN req[r]

(***************************************************************************)
(* Concurrent requests (SpecConc).                                         *)
(***************************************************************************)
\* What request r's own verifier result and its gate's allow-list call for.
ExpectedOutcome(r) ==
    IF ~DecodedGiven(r) \/ ErrorGiven(r) THEN "RejectedAuth"
    ELSE IF ~RolePermitted(r) THEN "RejectedRole"
    ELSE "Delegated"

\* The components of the state that belong to request r.
Own(r) ==
    <<pc[r], invocations[r], gate[r], args[r], req[r], auth[r], verifyCalls[r],
      userWrites[r], handlerCalls[r], handlerResult[r], response[r]>>

C15_OwnInputsDecide ==
    \A r \in DOMAIN pc :
        /\ Ended(r) => pc[r] = ExpectedOutcome(r)
        /\ pc[r] = "RejectedAuth" =>
             response[r] =
               Rejection(IF ErrorGiven(r) THEN auth[r].error ELSE "Authentication failed",
                         IF StatusGiven(r) THEN auth[r].status ELSE 401)
        /\ pc[r] = "RejectedRole" =>
             response[r] = Rejection("Forbidden: Access denied", 403)
        /\ pc[r] \in {"Bound", "InHandler", "Delegated"} =>
             /\ ExpectedOutcome(r) = "Delegated"
             /\ req[r].user = [id |-> auth[r].decoded.id, role |-> auth[r].decoded.role]
        /\ \A i \in 1..Len(handlerCalls[r]) :
             /\ handlerCalls[r][i].request = r
             /\ handlerCalls[r][i].req.user =
                  [id |-> auth[r].decoded.id, role |-> auth[r].decoded.role]

C15_OneRequestPerStep ==
    \A r, s \in DOMAIN pc :
        r # s /\ Own(r)' # Own(r) => Own(s)' = Own(s)

\* C15: concurrent invocations on distinct requests are independent: under every
\* interleaving the decision and the identity bound for a request are those its
\* own verifier result and the allow-list of its gate call for, and a step of
\* one invocation changes nothing that belongs to another.
C15_Independent == [](C15_OwnInputsDecide) /\ [][C15_OneRequestPerStep]_vars

\* C15 witness: while the handler of one request is pending as u1/CUSTOMER,
\* another request was rejected with 403 by the admin-only gate, and the first
\* still carries its own identity.
C15_Witness ==
    \E r, s \in DOMAIN pc :
        /\ r # s
        /\ pc[r] = "InHandler" /\ req[r].user = [id |-> "u1", role |-> "CUSTOMER"]
        /\ pc[s] = "RejectedRole" /\ DecodedGiven(s)
        /\ auth[s].decoded = [id |-> "u1", role |-> "CUSTOMER"]
        /\ gate[r] # gate[s]

C16_IdentityAtCall ==
    \A r \in DOMAIN pc :
        /\ \A i \in 1..Len(handlerCalls[r]) :
             /\ "user" \in DOMAIN handlerCalls[r][i].req
             /\ DOMAIN handlerCalls[r][i].req.user = {"id", "role"}
             /\ DecodedGiven(r)
             /\ handlerCalls[r][i].req.user.id = auth[r].decoded.id
             /\ handlerCalls[r][i].req.user.role = auth[r].decoded.role
        /\ Len(handlerCalls[r]) >= 1 => userWrites[r] = 1
        /\ pc[r] = "Bound" => userWrites[r] = 1 /\ handlerCalls[r] = << >>
        /\ pc[r] \in {"Start", "Verifying", "RoleCheck", "Authorized"} =>
             userWrites[r] = 0 /\ handlerCalls[r] = << >>

C16_CallFollowsWrite ==
    \A r \in DOMAIN pc :
        pc[r] = "Bound" =>
            /\ pc'[r] = "InHandler"
            /\ Len(handlerCalls'[r]) = 1
            /\ handlerCalls'[r][1].req = req[r]

\* C16: the wrapped handler never sees a partial or stale identity: when it is
\* invoked, the request's user.id and user.role are both set and are those of
\* the Claims decoded in this invocation, also on a request object that carried
\* an identity before; req.user is written once, before the call, and the step
\* that follows the write is the call itself (no other task runs in between).
C16_FreshIdentity == [](C16_IdentityAtCall) /\ [][C16_CallFollowsWrite]_vars

\* C16 witness: in its second invocation a request object is in the wrapped
\* handler with the newly decoded identity, while another request is pending in
\* its handler under another identity.
C16_Witness ==
    \E r, s \in DOMAIN pc :
        /\ r # s
        /\ invocations[r] = 2 /\ pc[r] = "InHandler"
        /\ handlerCalls[r][1].req.user = [id |-> "u2", role |-> "ADMIN"]
        /\ pc[s] = "InHandler"
        /\ handlerCalls[s][1].req.user = [id |-> "u1", role |-> "CUSTOMER"]

\* The authorization decision of an ended invocation.
DecisionOf(r) ==
    [outcome |-> pc[r],
     rejection |-> IF pc[r] \in {"RejectedAuth", "RejectedRole"}
                   THEN response[r] ELSE NoResponse,
     identity |-> IF pc[r] = "Delegated"
                  THEN handlerCalls[r][1].req.user ELSE [none |-> TRUE]]

\* C17: two invocations of the same guarded handler with the same verifier
\* result give the same authorization decision (the same rejection status and
\* message, or delegation with the same identity), whatever number of
\* invocations each request object went through before.
C17_SameDecision ==
    \A r, s \in DOMAIN pc :
        Ended(r) /\ Ended(s) /\ gate[r] = gate[s] /\ auth[r] = auth[s] =>
            DecisionOf(r) = DecisionOf(s)

\* C17 witness: the same gate delegated twice with the same Claims, once on a
\* request object in its second invocation and once on a fresh one.
C17_Witness ==
    \E r, s \in DOMAIN pc :
        /\ r # s /\ gate[r] = gate[s] /\ auth[r] = auth[s]
        /\ pc[r] = "Delegated" /\ pc[s] = "Delegated"
        /\ invocations[r] = 2 /\ invocations[s] = 1
        /\ ListGiven(r)

\* C18 (as stated): req.user is populated only inside the call the gate makes to
\* the wrapped handler: it is not present on a rejected invocation and no
\* longer present once the guarded handler has returned.
C18_IdentityOnlyInsideCall ==
    \A r \in Requests :
        "user" \in DOMAIN req[r] => pc[r] \in {"Bound", "InHandler"}

C18_WrittenForTheCall ==
    \A r \in Requests :
        /\ invocations[r] = 1 /\ pc[r] \notin {"Bound", "InHandler", "Delegated"} =>
             "user" \notin DOMAIN req[r]
        /\ pc[r] \in {"Bound", "InHandler", "Delegated"} =>
             /\ "user" \in DOMAIN req[r]
             /\ req[r].user = [id |-> auth[r].decoded.id, role |-> auth[r].decoded.role]

C18_NeverRemoved ==
    \A r \in Requests :
        /\ "user" \in DOMAIN req[r] => "user" \in DOMAIN req'[r]
        /\ "user" \notin DOMAIN req[r] /\ "user" \in DOMAIN req'[r] =>
             pc[r] = "Authorized" /\ pc'[r] = "Bound"

\* C18 (amended): req.user is created by the gate, for that one request, right
\* before it calls the wrapped handler, and by nothing else: a fresh request that
\* is rejected carries none. The gate never removes it: it is still on the
\* request object after the guarded handler has returned, and through a later
\* invocation of the same object.
C18_IdentityLifecycle == [](C18_WrittenForTheCall) /\ [][C18_NeverRemoved]_vars

\* C18 witness: the guarded handler has returned and the request still carries
\* the identity.
C18_Witness ==
    \E r \in Requests :
        /\ pc[r] = "Delegated" /\ invocations[r] = 1
        /\ "user" \in DOMAIN req[r]
        /\ req[r].user = [id |-> "u1", role |-> "CUSTOMER"]

\* C20: under an empty allowedRoles list every invocation with a successfully
\* decoded credential is rejected with 403 "Forbidden: Access denied" and the
\* wrapped handler is never invoked, for every role: the empty list is not
\* taken for an omitted allow-list.
C20_EmptyListRejectsAll ==
    \A r \in Requests :
        /\ ListGiven(r) /\ Len(gate[r].allowedRoles) = 0
        /\ DecodedGiven(r) /\ ~ErrorGiven(r)
        /\ pc[r] \notin {"Verifying", "RoleCheck"}
        => /\ pc[r] = "RejectedRole"
           /\ response[r] = Rejection("Forbidden: Access denied", 403)
           /\ ~HandlerInvoked(r)
           /\ userWrites[r] = 0

\* C20 witness: an ADMIN was rejected by the gate with the empty list.
C20_Witness ==
    \E r \in Requests :
        /\ ListGiven(r) /\ gate[r].allowedRoles = << >>
        /\ DecodedGiven(r) /\ ~ErrorGiven(r)
        /\ auth[r].decoded.role = "ADMIN"
        /\ pc[r] = "RejectedRole"
        /\ response[r].status = 403

\* ---------------------------------------------------------------------
\* The profile route: PATCH = protectedRoute(handler), no allow-list.
\* ---------------------------------------------------------------------

Names == {"A", "Al"}
Phones == {"12345", "9876543210", "9123456789"}
Emails == {Null, "", "not-an-email", "al@example.com"}

\* String.prototype.length over the strings of the model.
StrLen(s) ==
    CASE s = "" -> 0
      [] s = "A" -> 1
      [] s \in {"Al", "Bo"} -> 2
      [] s = "12345" -> 5
      [] s \in {"9876543210", "9123456789"} -> 10
      [] s = "not-an-email" -> 12
      [] s = "al@example.com" -> 14

\* z.string().email() over the strings of the model.
IsEmail(s) == s = "al@example.com"

BodyFields == {"name", "phone", "email"}

\* A JSON body whose properties are p; "id" is a property the schema
\* does not know.
MkBody(p, n, ph, e) ==
    [f \in p |-> CASE f = "name" -> n
                   [] f = "phone" -> ph
                   [] f = "email" -> e
                   [] f = "id" -> "u2"]

Bodies ==
    { MkBody(p, n, ph, e) : p \in SUBSET (BodyFields \cup {"id"}),
                            n \in Names, ph \in Phones, e \in Emails }

\* JavaScript truthiness of a string property: present and not "".
Truthy(obj, f) == Has(obj, f) /\ obj[f] # "" /\ obj[f] # Null

\* Variant of line 41: the name has no minimum length.
SchemaValid_NameAny(b) ==
    /\ Has(b, "phone") => b.phone # Null /\ StrLen(b.phone) >= 10
    /\ Has(b, "email") => b.email = Null \/ b.email = "" \/ IsEmail(b.email)
    /\ Truthy(b, "name") \/ Truthy(b, "phone")

\* updateSchema accepts the body.
SchemaValid(b) ==
    /\ Has(b, "name") => b.name # Null /\ StrLen(b.name) >= 2
    /\ Has(b, "phone") => b.phone # Null /\ StrLen(b.phone) >= 10
    /\ Has(b, "email") => b.email = Null \/ b.email = "" \/ IsEmail(b.email)
    /\ Truthy(b, "name") \/ Truthy(b, "phone")

\* updateSchema.parse(body) of an accepted body: the known properties.
Parse(b) == [f \in DOMAIN b \cap BodyFields |-> b[f]]

\* Variant of lines 62-65: an absent email is left out of updateData.
UpdateData_KeepsEmail(data) ==
    IF Has(data, "email") /\ data.email = "" THEN SetField(data, "email", Null)
    ELSE data

\* updateData: the parsed data with email null when it is "" or undefined.
UpdateData(data) ==
    SetField(data, "email",
             IF ~Has(data, "email") \/ data.email = "" THEN Null
             ELSE data.email)

\* The row after prisma writes the given properties.
ApplyUpdate(u, d) == [f \in DOMAIN u |-> IF f \in DOMAIN d THEN d[f] ELSE u[f]]

\* prisma.user.update rejects: no such row, or the phone is another user's.
UpdateRejected(tbl, id, d) ==
    \/ id \notin DOMAIN tbl
    \/ Has(d, "phone") /\ \E o \in DOMAIN tbl \ {id} : tbl[o].phone = d.phone

UpdateError(tbl, id, d) ==
    IF id \notin DOMAIN tbl THEN "Record to update not found"
    ELSE "Unique constraint failed on the fields: phone"

StatusOk == 200
StatusServerError == 500
MsgUpdated == "Profile updated successfully"
MsgUpdateFailed == "Update failed"

\* The success response of the handler.
SuccessResponse(u) ==
    NextResponseJson([success |-> TRUE, message |-> MsgUpdated,
                      user |-> [id |-> u.id, name |-> u.name, phone |-> u.phone,
                                email |-> u.email, role |-> u.role]],
                     StatusOk)

\* The response of the catch block.
FailureResponse(e) ==
    NextResponseJson([success |-> FALSE, message |-> MsgUpdateFailed,
                      error |-> e],
                     StatusServerError)

\* The guarded handler is built once, without an allow-list (line 54).
PatchGates == { [name |-> "PATCH"] }
PatchArgs == { << >> }

\* What the verifier says of the requests sent to the route.
PatchAuthResults ==
    { a \in AuthResults :
        \/ DOMAIN a = {"error", "status"} /\ a.status = StatusUnauthorized
        \/ DOMAIN a = {"decoded"} }

\* Failures of the services the handler awaits.
JsonError == "Unexpected end of JSON input"
ZodError == "ZodError"
DbError == "Can't reach database server"
RedisError == "Connection is closed."

\* The handler returns res; the guarded handler returns it unchanged.
PatchReturns(r, res) ==
    /\ handlerResult' = [handlerResult EXCEPT ![r] = res]
    /\ response' = [response EXCEPT ![r] = GateReturn(res)]
    /\ pc' = [pc EXCEPT ![r] = "Delegated"]

\* lines 87-97: the catch block answers 500 with the error's message
PatchCatch(r, e) == PatchReturns(r, FailureResponse(e))

gateVarsKept == <<invocations, gate, args, req, auth, verifyCalls, userWrites,
                  handlerCalls, pageVars>>

\* Variant of line 56: the id is taken from the body when the body has one.
PatchReadBody_BodyId(r) ==
    /\ pc[r] = "InHandler"
    /\ \E b \in Bodies :
         local' = [local EXCEPT ![r] =
                      [userId |-> IF Has(b, "id") THEN b.id ELSE req[r].user.id,
                       body |-> b, effects |-> << >>]]
    /\ pc' = [pc EXCEPT ![r] = "BodyRead"]
    /\ UNCHANGED <<gateVarsKept, handlerResult, response, users, cache>>

\* lines 56-58: userId = req.user.id; body = await req.json()
PatchReadBody(r) ==
    /\ pc[r] = "InHandler"
    /\ \E b \in Bodies :
         local' = [local EXCEPT ![r] =
                      [userId |-> req[r].user.id, body |-> b, effects |-> << >>]]
    /\ pc' = [pc EXCEPT ![r] = "BodyRead"]
    /\ UNCHANGED <<gateVarsKept, handlerResult, response, users, cache>>

\* line 58: req.json() rejects (the body is not JSON)
PatchReadBodyFails(r) ==
    /\ pc[r] = "InHandler"
    /\ local' = [local EXCEPT ![r] =
                    [userId |-> req[r].user.id, effects |-> << >>]]
    /\ PatchCatch(r, JsonError)
    /\ UNCHANGED <<gateVarsKept, users, cache>>

\* lines 59-70: parse the body, build updateData, call prisma.user.update
PatchValidate(r) ==
    /\ pc[r] = "BodyRead"
    /\ IF SchemaValid(local[r].body)
       THEN /\ local' = [local EXCEPT ![r] =
                           SetField(@, "updateData", UpdateData(Parse(@.body)))]
            /\ pc' = [pc EXCEPT ![r] = "Updating"]
            /\ UNCHANGED <<handlerResult, response>>
       ELSE /\ PatchCatch(r, ZodError)
            /\ UNCHANGED local
    /\ UNCHANGED <<gateVarsKept, users, cache>>

\* Variant of lines 67-72: the cache key is deleted before the update.
PatchUpdate_DelFirst(r) ==
    /\ pc[r] = "Updating"
    /\ cache' = cache \ {UsersListKey}
    /\ IF UpdateRejected(users, local[r].userId, local[r].updateData)
       THEN /\ PatchCatch(r, UpdateError(users, local[r].userId, local[r].updateData))
            /\ local' = [local EXCEPT ![r].effects = Append(@, "del")]
            /\ UNCHANGED users
       ELSE /\ users' = [users EXCEPT ![local[r].userId] =
                            ApplyUpdate(@, local[r].updateData)]
            /\ local' = [local EXCEPT ![r] =
                            SetField([@ EXCEPT !.effects = @ \o <<"del", "update">>],
                                     "updatedUser", users'[@.userId])]
            /\ pc' = [pc EXCEPT ![r] = "Invalidating"]
            /\ UNCHANGED <<handlerResult, response>>
    /\ UNCHANGED gateVarsKept

\* lines 67-70: updatedUser = await prisma.user.update({ where: { id: userId },
\* data: updateData }); a rejected update is caught
PatchUpdate(r) ==
    /\ pc[r] = "Updating"
    /\ IF UpdateRejected(users, local[r].userId, local[r].updateData)
       THEN /\ PatchCatch(r, UpdateError(users, local[r].userId, local[r].updateData))
            /\ UNCHANGED <<users, local>>
       ELSE /\ users' = [users EXCEPT ![local[r].userId] =
                            ApplyUpdate(@, local[r].updateData)]
            /\ local' = [local EXCEPT ![r] =
                            SetField([@ EXCEPT !.effects = Append(@, "update")],
                                     "updatedUser", users'[@.userId])]
            /\ pc' = [pc EXCEPT ![r] = "Invalidating"]
            /\ UNCHANGED <<handlerResult, response>>
    /\ UNCHANGED <<gateVarsKept, cache>>

\* lines 67-70: the database cannot be reached
PatchUpdateFails(r) ==
    /\ pc[r] = "Updating"
    /\ PatchCatch(r, DbError)
    /\ UNCHANGED <<gateVarsKept, users, cache, local>>

\* lines 72-86: await redis.del("users:list"); return the success response
PatchDel(r) ==
    /\ pc[r] = "Invalidating"
    /\ cache' = cache \ {UsersListKey}
    /\ local' = [local EXCEPT ![r].effects = Append(@, "del")]
    /\ PatchReturns(r, SuccessResponse(local[r].updatedUser))
    /\ UNCHANGED <<gateVarsKept, users>>

\* Variant of line 72: a rejected redis.del is swallowed and the success
\* response is returned.
PatchDelFails_Ignored(r) ==
    /\ pc[r] = "Invalidating"
    /\ PatchReturns(r, SuccessResponse(local[r].updatedUser))
    /\ UNCHANGED <<gateVarsKept, users, cache, local>>

\* line 72: redis.del rejects
PatchDelFails(r) ==
    /\ pc[r] = "Invalidating"
    /\ PatchCatch(r, RedisError)
    /\ UNCHANGED <<gateVarsKept, users, cache, local>>

InitPatch == InitOver(Requests)

NextPatch ==
    \E r \in Requests :
        \/ /\ InvokeWith(r, PatchGates, PatchArgs)
           /\ local' = [local EXCEPT ![r] = NoLocal]
           /\ UNCHANGED <<users, cache, pageVars>>
        \/ VerifyFrom(r, PatchAuthResults) /\ UNCHANGED <<routeVars, pageVars>>
        \/ CheckAuth(r) /\ UNCHANGED <<routeVars, pageVars>>
        \/ CheckRole(r) /\ UNCHANGED <<routeVars, pageVars>>
        \/ Bind(r) /\ UNCHANGED <<routeVars, pageVars>>
        \/ Delegate(r) /\ UNCHANGED <<routeVars, pageVars>>
        \/ PatchReadBody(r)
        \/ PatchReadBodyFails(r)
        \/ PatchValidate(r)
        \/ PatchUpdate(r)
        \/ PatchUpdateFails(r)
        \/ PatchDel(r)
        \/ PatchDelFails(r)

SpecPatch == InitPatch /\ [][NextPatch]_vars

\* The handler of r returned the success response.
PatchSucceeded(r) ==
    pc[r] = "Delegated" /\ response[r].body.success

\* The handler of r returned the response of its catch block.
PatchFailed(r) ==
    pc[r] = "Delegated" /\ ~response[r].body.success

\* C19: a success response of the profile update is returned only after the
\* user record was updated and then the cache key "users:list" was deleted,
\* in that order; the key is deleted by no other step, and a failing
\* database update ends the call with the cache untouched.
C19_UpdateThenDelete ==
    /\ [](\A r \in Requests :
            /\ local[r].effects \in { << >>, <<"update">>, <<"update", "del">> }
            /\ PatchSucceeded(r) =>
                 /\ local[r].effects = <<"update", "del">>
                 /\ response[r].status = StatusOk
                 /\ UsersListKey \notin cache
                 /\ \A f \in DOMAIN local[r].updateData :
                        users[local[r].userId][f] = local[r].updateData[f])
    /\ [][\A r \in Requests :
            /\ cache' # cache =>
                 /\ pc[r] = "Invalidating"
                 /\ local[r].effects = <<"update">>
                 /\ cache' = cache \ {UsersListKey}
                 /\ PatchSucceeded(r)'
            /\ pc[r] = "Updating" /\ pc'[r] = "Delegated" =>
                 /\ cache' = cache
                 /\ users' = users
                 /\ PatchFailed(r)'
                 /\ local'[r].effects = << >>]_vars

\* A changed record and a deleted key behind a success response.
C19_Witness ==
    \E r \in Requests :
        /\ PatchSucceeded(r)
        /\ local[r].effects = <<"update", "del">>
        /\ users[local[r].userId] # InitialUsers[local[r].userId]
        /\ cache = {}

\* C21: the profile route has no allow-list, so no caller is rejected for
\* its role; a step that changes the users table or the cache belongs to a
\* call whose verification passed, and it changes no record but the one whose
\* id is the id the gate bound from the token, whatever the body says.
C21_OnlyOwnRecord ==
    /\ [](\A r \in Requests :
            /\ pc[r] # "Idle" => ~ListGiven(r)
            /\ pc[r] # "RejectedRole"
            /\ (pc[r] \notin {"Idle", "Start", "Verifying"} /\ AuthFailed(auth[r]))
                 => local[r].effects = << >> /\ handlerCalls[r] = << >>)
    /\ [][(users' # users \/ cache' # cache) =>
            \E r \in Requests :
                /\ pc[r] \in {"Updating", "Invalidating"}
                /\ ~AuthFailed(auth[r])
                /\ req[r].user.id = auth[r].decoded.id
                /\ \A u \in UserIds \ {auth[r].decoded.id} : users'[u] = users[u]
                /\ DOMAIN users' = DOMAIN users]_vars

\* A GUEST caller u1 whose body names u2 changed its own record and left
\* u2's record alone.
C21_Witness ==
    \E r \in Requests :
        /\ invocations[r] = 1
        /\ PatchSucceeded(r)
        /\ auth[r].decoded = [id |-> "u1", role |-> "GUEST"]
        /\ Has(local[r].body, "id") /\ local[r].body.id = "u2"
        /\ users["u1"] # InitialUsers["u1"]
        /\ users["u2"] = InitialUsers["u2"]

\* The record of the caller of r holds what updateData asked for.
RecordModified(r) ==
    \A f \in DOMAIN local[r].updateData :
        users[local[r].userId][f] = local[r].updateData[f]

\* C22: update and cache deletion are not atomic: when the deletion fails
\* after the update succeeded, the answer is 500 "Update failed", the record
\* stays modified and the cache is left as it was.
C22_NotAtomic ==
    /\ [](\A r \in Requests :
            (pc[r] = "Delegated" /\ local[r].effects = <<"update">>) =>
                /\ ~response[r].body.success
                /\ response[r].status = StatusServerError
                /\ response[r].body.message = MsgUpdateFailed
                /\ response[r].body.error = RedisError
                /\ RecordModified(r))
    /\ [][\A r \in Requests :
            (pc[r] = "Invalidating" /\ PatchFailed(r)') =>
                /\ users' = users
                /\ cache' = cache
                /\ local'[r].effects = <<"update">>]_vars

\* A 500 answer with a changed record and the stale cache key still there.
C22_Witness ==
    \E r \in Requests :
        /\ invocations[r] = 1
        /\ PatchFailed(r)
        /\ local[r].effects = <<"update">>
        /\ users[local[r].userId] # InitialUsers[local[r].userId]
        /\ UsersListKey \in cache

\* A body that fails validation, in the words of the claim.
FailsValidation(b) ==
    \/ ~Has(b, "name") /\ ~Has(b, "phone")
    \/ Has(b, "name") /\ StrLen(b.name) < 2
    \/ Has(b, "phone") /\ StrLen(b.phone) < 10
    \/ Has(b, "email") /\ b.email \notin {Null, ""} /\ ~IsEmail(b.email)

\* The response of r is the 500 answer of the catch block.
UpdateFailedResponse(r) ==
    /\ response[r].status = StatusServerError
    /\ response[r].body.success = FALSE
    /\ response[r].body.message = MsgUpdateFailed

\* C23: once called, the handler of the profile route never throws: a body
\* that fails validation, unreadable JSON and a failing database update all
\* end in the 500 answer "Update failed"; a validation failure is followed
\* by no database update and no cache deletion.
C23_FailuresAnswer500 ==
    /\ [](\A r \in Requests :
            /\ handlerCalls[r] # << >> =>
                 pc[r] # "Faulted" /\ ~IsThrown(response[r]) /\ ~IsThrown(handlerResult[r])
            /\ PatchFailed(r) => UpdateFailedResponse(r)
            /\ (pc[r] = "Delegated" /\ ~Has(local[r], "body")) =>
                 /\ PatchFailed(r)
                 /\ response[r].body.error = JsonError
                 /\ local[r].effects = << >>
            /\ (pc[r] = "Delegated" /\ Has(local[r], "body")
                  /\ FailsValidation(local[r].body)) =>
                 /\ PatchFailed(r)
                 /\ response[r].body.error = ZodError
                 /\ local[r].effects = << >>)
    /\ [][\A r \in Requests :
            /\ (pc[r] = "BodyRead" /\ FailsValidation(local[r].body)) =>
                 /\ PatchFailed(r)'
                 /\ users' = users
                 /\ cache' = cache
            /\ (pc[r] = "Updating" /\ pc'[r] # "Updating"
                  /\ local'[r].effects = << >>) =>
                 /\ PatchFailed(r)'
                 /\ users' = users
                 /\ cache' = cache]_vars

\* A one-letter name was answered with 500 and nothing was written.
C23_Witness ==
    \E r \in Requests :
        /\ PatchFailed(r)
        /\ Has(local[r], "body") /\ Has(local[r].body, "name")
        /\ local[r].body.name = "A"
        /\ response[r].body.error = ZodError
        /\ users = InitialUsers
        /\ UsersListKey \in cache

\* The row of the caller of r, before and after a step.
RowOf(r) == users[local[r].userId]

\* C24: a performed update stores email null when the body's email is
\* absent, null or "", stores a valid non-empty email as given, stores a
\* given name or phone, and leaves an absent name or phone (and id and role)
\* as they were.
C24_EmailNulled ==
    [][\A r \in Requests :
         (pc[r] = "Updating" /\ pc'[r] = "Invalidating") =>
            LET b == local[r].body IN
            /\ (~Has(b, "email") \/ b.email \in {Null, ""}) => RowOf(r)'.email = Null
            /\ (Has(b, "email") /\ b.email \notin {Null, ""}) =>
                 IsEmail(b.email) /\ RowOf(r)'.email = b.email
            /\ RowOf(r)'.name = IF Has(b, "name") THEN b.name ELSE RowOf(r).name
            /\ RowOf(r)'.phone = IF Has(b, "phone") THEN b.phone ELSE RowOf(r).phone
            /\ RowOf(r)'.id = RowOf(r).id
            /\ RowOf(r)'.role = RowOf(r).role]_vars

\* u1 sent only a name: the stored email is gone, the phone is kept.
C24_Witness ==
    \E r \in Requests :
        /\ invocations[r] = 1
        /\ PatchSucceeded(r)
        /\ local[r].userId = "u1"
        /\ DOMAIN local[r].body = {"name"}
        /\ InitialUsers["u1"].email # Null
        /\ users["u1"].email = Null
        /\ users["u1"].phone = InitialUsers["u1"].phone

\* ---------------------------------------------------------------------
\* The form pages: CreateBusinessPage, EditBusinessPage, EditProfilePage.
\* ---------------------------------------------------------------------

MaxSubmits == 2

FormKinds == {"create", "editBusiness", "editProfile"}
BusinessKinds == {"create", "editBusiness"}

\* z.enum([...]) of businessSchema
Categories ==
    {"FOOD_RESTAURANT", "RETAIL_SHOP", "SERVICES", "HOME_BUSINESS",
     "STREET_VENDOR", "ARTISAN", "OTHER"}

BusinessId == "business-1"

\* The validated fields of each form; the other fields of the business
\* forms (description, address, location, upiId) are optional strings, which
\* every input value satisfies.
FieldsOf(k) ==
    IF k = "editProfile" THEN {"name", "phone", "email"}
    ELSE {"name", "phone", "category"}

\* What an input of the page can hold.
InputValues(f) ==
    CASE f = "name" -> {"", "A", "Al"}
      [] f = "phone" -> {"", "12345", "9876543210"}
      [] f = "email" -> {"", "not-an-email", "al@example.com"}
      [] f = "category" -> {"OTHER", "SERVICES", "BOGUS"}

\* useState initial formData
BlankForm(k) ==
    [f \in FieldsOf(k) |-> IF f = "category" THEN "OTHER" ELSE ""]

\* The fields the schema of the form rejects.
FormIssues(k, d) ==
    { f \in FieldsOf(k) :
        CASE f = "name" -> StrLen(d.name) < 2
          [] f = "phone" -> StrLen(d.phone) < 10
          [] f = "email" -> d.email # "" /\ ~IsEmail(d.email)
          [] f = "category" -> d.category \notin Categories }

\* The message of the issue of field f.
IssueMessage(k, f) ==
    CASE f = "name" -> IF k = "editProfile"
                       THEN "Name must be at least 2 characters"
                       ELSE "Business name must be at least 2 characters"
      [] f = "phone" -> "Phone must be at least 10 digits"
      [] f = "email" -> "Invalid email"
      [] f = "category" -> "Invalid enum value"

\* catch (ZodError): newErrors[err.path[0]] = err.message for every issue
ZodErrors(k, d) == [f \in FormIssues(k, d) |-> IssueMessage(k, f)]

MethodOf(k) ==
    CASE k = "create" -> "POST" [] k = "editBusiness" -> "PUT" [] k = "editProfile" -> "PATCH"

UrlOf(k) ==
    CASE k = "create" -> "/api/businesses/my-business"
      [] k = "editBusiness" -> "/api/businesses/my-business/business-1"
      [] k = "editProfile" -> "/api/users/update"

\* router.push target after a success
SuccessRoute(k) ==
    CASE k = "create" -> "/my-business/business-1"
      [] k = "editBusiness" -> "/my-business/business-1"
      [] k = "editProfile" -> "/profile"

NoRequest == [method |-> "none"]

\* A mounted page of kind k whose form holds d.
MountedForm(k, d) ==
    [kind |-> k, formData |-> d, saving |-> FALSE, errors |-> EmptyObject,
     step |-> "Idle", sent |-> 0, lastRequest |-> NoRequest, pushed |-> "",
     submits |-> 0]

MsgUnexpected == "An unexpected error occurred"

\* What the server can answer to the request of form k.
ServerReplies(k) ==
    IF k = "editProfile"
    THEN { [success |-> TRUE],
           [success |-> FALSE, message |-> "Update failed"],
           [success |-> FALSE] }
    ELSE { [success |-> TRUE, data |-> [id |-> BusinessId]],
           [success |-> TRUE],
           [success |-> FALSE,
            details |-> << [path |-> <<"phone">>, message |-> "Phone already in use"] >>],
           [success |-> FALSE, error |-> "Unauthorized"],
           [success |-> FALSE] }

\* The reply makes the success branch throw: data.data.id of a reply
\* without data (create form only).
SuccessBranchThrows(k, reply) == k = "create" /\ ~Has(reply, "data")

\* newErrors built from data.details
DetailErrors(details) ==
    [f \in { details[i].path[1] : i \in 1..Len(details) } |->
        details[CHOOSE i \in 1..Len(details) :
                    /\ details[i].path[1] = f
                    /\ \A j \in 1..Len(details) :
                           details[j].path[1] = f => j <= i].message]

\* The errors set for a reply with success false.
RejectionErrors(k, reply) ==
    IF k = "editProfile"
    THEN [submit |-> IF Has(reply, "message") THEN reply.message ELSE "Update failed"]
    ELSE IF Has(reply, "details") THEN DetailErrors(reply.details)
    ELSE [submit |-> IF Has(reply, "error") THEN reply.error
                     ELSE IF k = "create" THEN "Failed to create business"
                     ELSE "Failed to update business"]

\* The state of the server, which no page action writes.
serverVars == <<pc, invocations, gate, args, req, auth, verifyCalls, userWrites,
                handlerCalls, handlerResult, response, users, cache, local>>

\* Every value the form of page k can hold.
FormDatas(k) ==
    { d \in [FieldsOf(k) -> UNION { InputValues(f) : f \in FieldsOf(k) }] :
        \A f \in FieldsOf(k) : d[f] \in InputValues(f) }

\* The page of kind k is opened: the create page starts blank, an edit page
\* shows what was loaded (a stored category is one of the enum).
OpenForm(k) ==
    /\ form.step = "Idle"
    /\ \E d \in FormDatas(k) :
         /\ k = "create" => d = BlankForm(k)
         /\ Has(d, "category") => d.category \in Categories
         /\ form' = MountedForm(k, d)
    /\ UNCHANGED <<serverVars, qr, tables>>

\* handleChange: the field takes the value, and its error, if any, is blanked
HandleChange(f, v) ==
    /\ form.kind # "none"
    /\ f \in FieldsOf(form.kind)
    /\ form.pushed = ""
    /\ form' = [form EXCEPT
                  !.formData = [@ EXCEPT ![f] = v],
                  !.errors = IF Has(@, f) /\ @[f] # "" THEN [@ EXCEPT ![f] = ""]
                             ELSE @]
    /\ UNCHANGED <<serverVars, qr, tables>>

\* Variant of handleSubmit: the request is sent before the form is validated.
HandleSubmit_SendsFirst ==
    /\ form.kind # "none"
    /\ form.step = "Idle" /\ ~form.saving /\ form.pushed = ""
    /\ form.submits < MaxSubmits
    /\ form' = [form EXCEPT
                  !.submits = @ + 1, !.saving = TRUE, !.errors = EmptyObject,
                  !.step = "Awaiting", !.sent = @ + 1,
                  !.lastRequest = [method |-> MethodOf(form.kind),
                                   url |-> UrlOf(form.kind),
                                   body |-> form.formData]]
    /\ UNCHANGED <<serverVars, qr, tables>>

\* handleSubmit up to its first await: setSaving(true), setErrors({}), parse;
\* a valid form is sent with fetch, an invalid one sets the field errors and
\* runs the finally block
HandleSubmit ==
    /\ form.kind # "none"
    /\ form.step = "Idle" /\ ~form.saving /\ form.pushed = ""
    /\ form.submits < MaxSubmits
    /\ IF FormIssues(form.kind, form.formData) = {}
       THEN form' = [form EXCEPT
                       !.submits = @ + 1, !.saving = TRUE, !.errors = EmptyObject,
                       !.step = "Awaiting", !.sent = @ + 1,
                       !.lastRequest = [method |-> MethodOf(form.kind),
                                        url |-> UrlOf(form.kind),
                                        body |-> form.formData]]
       ELSE form' = [form EXCEPT
                       !.submits = @ + 1, !.saving = FALSE,
                       !.errors = ZodErrors(form.kind, form.formData)]
    /\ UNCHANGED <<serverVars, qr, tables>>

\* handleSubmit after res.json(): success pushes the route, a rejection sets
\* errors, a throwing success branch is caught; finally setSaving(false)
HandleReply ==
    /\ form.kind # "none" /\ form.step = "Awaiting"
    /\ \E reply \in ServerReplies(form.kind) :
         form' = [form EXCEPT
                    !.step = "Idle", !.saving = FALSE,
                    !.pushed = IF reply.success /\ ~SuccessBranchThrows(form.kind, reply)
                               THEN SuccessRoute(form.kind) ELSE @,
                    !.errors = IF reply.success
                               THEN IF SuccessBranchThrows(form.kind, reply)
                                    THEN [submit |-> MsgUnexpected] ELSE @
                               ELSE RejectionErrors(form.kind, reply)]
    /\ UNCHANGED <<serverVars, qr, tables>>

\* handleSubmit when fetch or res.json() rejects: the catch block sets the
\* submit error; finally setSaving(false)
HandleReplyThrows ==
    /\ form.kind # "none" /\ form.step = "Awaiting"
    /\ form' = [form EXCEPT !.step = "Idle", !.saving = FALSE,
                            !.errors = [submit |-> MsgUnexpected]]
    /\ UNCHANGED <<serverVars, qr, tables>>

NextForm ==
    \/ \E k \in FormKinds : OpenForm(k)
    \/ \E f \in {"name", "phone", "email", "category"} :
          \E v \in InputValues(f) : HandleChange(f, v)
    \/ HandleSubmit
    \/ HandleReply
    \/ HandleReplyThrows

SpecForm == InitOver(Requests) /\ [][NextForm]_vars

MaxLoads == 4

\* Messages a failed load can show.
LoadRejections == {"Failed to load business", "Business not found"}
LoadFaults == {"HTTP error! status: 404", "Failed to fetch"}

\* The variables no step of the QR page writes.
outsideQr == <<serverVars, form, tables>>

\* fetchBusiness up to its await: setLoading(true), setError(null), fetch
FetchBusinessStart ==
    qr' = [qr EXCEPT !.open = TRUE, !.loading = TRUE, !.error = Null,
                     !.step = "Loading", !.loads = @ + 1]

\* Variant: a retry cancels the redirects that are still pending.
TryAgain_CancelsTimers ==
    /\ qr.open /\ qr.pushes = 0
    /\ ~qr.loading /\ qr.error # Null
    /\ qr.loads < MaxLoads
    /\ qr' = [qr EXCEPT !.loading = TRUE, !.error = Null, !.step = "Loading",
                        !.loads = @ + 1, !.timers = 0]
    /\ UNCHANGED outsideQr

\* The page is opened: the effect on businessId calls fetchBusiness.
OpenQr ==
    /\ ~qr.open
    /\ FetchBusinessStart
    /\ UNCHANGED outsideQr

\* "Try Again" on the error view calls fetchBusiness.
TryAgain ==
    /\ qr.open /\ qr.pushes = 0
    /\ ~qr.loading /\ qr.error # Null
    /\ qr.loads < MaxLoads
    /\ FetchBusinessStart
    /\ UNCHANGED outsideQr

\* The load succeeded: setBusiness(data.data); finally setLoading(false).
LoadSucceeds ==
    /\ qr.step = "Loading"
    /\ qr' = [qr EXCEPT !.business = BusinessId, !.loading = FALSE, !.step = "Idle"]
    /\ UNCHANGED outsideQr

\* The load failed, by a reply with success false or by a thrown error:
\* setError(...), setTimeout(() => router.push("/my-business"), 2000);
\* finally setLoading(false).
LoadFails ==
    /\ qr.step = "Loading"
    /\ \E e \in LoadRejections \cup LoadFaults :
         qr' = [qr EXCEPT !.error = e, !.timers = @ + 1, !.failures = @ + 1,
                          !.loading = FALSE, !.step = "Idle"]
    /\ UNCHANGED outsideQr

\* A scheduled redirect fires: router.push("/my-business").
TimerFires ==
    /\ qr.timers > 0
    /\ qr' = [qr EXCEPT !.timers = @ - 1, !.pushes = @ + 1]
    /\ UNCHANGED outsideQr

NextQr ==
    \/ OpenQr
    \/ TryAgain
    \/ LoadSucceeds
    \/ LoadFails
    \/ TimerFires

SpecQr == InitOver(Requests) /\ [][NextQr]_vars

\* C26: every failed load schedules one redirect and no redirect is ever
\* cancelled: the redirects fired and pending are as many as the failed
\* loads, a retry and a successful load leave the pending redirects pending,
\* and a pending redirect can fire although the business is loaded and the
\* error is cleared.
C26_RedirectNeverCancelled ==
    /\ [](qr.timers + qr.pushes = qr.failures)
    /\ [][/\ qr'.failures > qr.failures =>
               qr'.timers = qr.timers + 1 /\ qr'.error # Null
          /\ qr'.timers < qr.timers =>
               qr'.timers = qr.timers - 1 /\ qr'.pushes = qr.pushes + 1
          /\ (qr.step = "Loading" /\ qr'.business # Null) =>
               qr'.timers = qr.timers /\ qr'.error = Null
          /\ (qr.step = "Idle" /\ qr'.step = "Loading") =>
               qr'.timers = qr.timers]_vars

\* After two failed loads and a successful retry both redirects fired, the
\* business being loaded and no error shown.
C26_Witness ==
    /\ qr.business = BusinessId /\ qr.error = Null /\ ~qr.loading
    /\ qr.loads = 3 /\ qr.failures = 2
    /\ qr.pushes = 2

\* ---------------------------------------------------------------------
\* The database schema: primary keys, unique indexes and foreign keys.
\* ---------------------------------------------------------------------

BusinessIds == {"b1", "b2"}
ReviewIds == {"rv1"}
EndorsementIds == {"e1", "e2"}
AnalyticsIds == {"a1"}
UpiIds == {"t1"}

\* The variables no statement on the tables writes.
outsideTables ==
    <<pc, invocations, gate, args, req, auth, verifyCalls, userWrites,
      handlerCalls, handlerResult, response, cache, local, form, qr>>

Ids(rows) == { x.id : x \in rows }

\* The number of rows outside the users table.
RowCount(t) ==
    Cardinality(t.businesses) + Cardinality(t.reviews)
      + Cardinality(t.endorsements) + Cardinality(t.business_analytics)
      + Cardinality(t.upi_transactions)

\* The statement stmt on row was accepted or rejected, t being the tables
\* after it; removed is the number of rows it deleted outside the users table.
RanOn(t, stmt, row, ok) ==
    [t EXCEPT !.last = [stmt |-> stmt, row |-> row, ok |-> ok,
                        removed |-> RowCount(tables) - RowCount(t)]]

Ran(t, stmt, ok) == RanOn(t, stmt, EmptyObject, ok)

\* INSERT INTO users: primary key id, unique phone
InsertUser(u) ==
    LET ok == /\ u \notin DOMAIN users
              /\ \A o \in DOMAIN users : users[o].phone # InitialUsers[u].phone
    IN /\ users' = IF ok
                   THEN [x \in DOMAIN users \cup {u} |->
                            IF x = u THEN InitialUsers[u] ELSE users[x]]
                   ELSE users
       /\ tables' = Ran(tables, "insert user", ok)
       /\ UNCHANGED outsideTables

\* INSERT INTO businesses: primary key id, ownerId references users(id)
InsertBusiness(b, owner) ==
    LET ok == b \notin Ids(tables.businesses) /\ owner \in DOMAIN users
        t == IF ok THEN [tables EXCEPT !.businesses = @ \cup {[id |-> b, ownerId |-> owner]}]
             ELSE tables
    IN /\ tables' = Ran(t, "insert business", ok)
       /\ UNCHANGED <<users, outsideTables>>

\* INSERT INTO reviews: businessId references businesses(id), reviewerId users(id)
InsertReview(i, b, u) ==
    LET ok == /\ i \notin Ids(tables.reviews)
              /\ b \in Ids(tables.businesses)
              /\ u \in DOMAIN users
        t == IF ok THEN [tables EXCEPT !.reviews =
                            @ \cup {[id |-> i, businessId |-> b, reviewerId |-> u]}]
             ELSE tables
    IN /\ tables' = Ran(t, "insert review", ok)
       /\ UNCHANGED <<users, outsideTables>>

\* Variant: the unique index on (businessId, endorserId) is missing.
InsertEndorsement_NoUniqueKey(i, b, u) ==
    LET ok == /\ i \notin Ids(tables.endorsements)
              /\ b \in Ids(tables.businesses)
              /\ u \in DOMAIN users
        t == IF ok THEN [tables EXCEPT !.endorsements =
                            @ \cup {[id |-> i, businessId |-> b, endorserId |-> u]}]
             ELSE tables
    IN /\ tables' = RanOn(t, "insert endorsement",
                          [id |-> i, businessId |-> b, endorserId |-> u], ok)
       /\ UNCHANGED <<users, outsideTables>>

\* INSERT INTO endorsements: both foreign keys, and the unique index
\* endorsements_businessId_endorserId_key
InsertEndorsement(i, b, u) ==
    LET ok == /\ i \notin Ids(tables.endorsements)
              /\ b \in Ids(tables.businesses)
              /\ u \in DOMAIN users
              /\ \A e \in tables.endorsements :
                    ~(e.businessId = b /\ e.endorserId = u)
        t == IF ok THEN [tables EXCEPT !.endorsements =
                            @ \cup {[id |-> i, businessId |-> b, endorserId |-> u]}]
             ELSE tables
    IN /\ tables' = RanOn(t, "insert endorsement",
                          [id |-> i, businessId |-> b, endorserId |-> u], ok)
       /\ UNCHANGED <<users, outsideTables>>

\* INSERT INTO business_analytics: businessId is a foreign key and unique
InsertAnalytics(i, b) ==
    LET ok == /\ i \notin Ids(tables.business_analytics)
              /\ b \in Ids(tables.businesses)
              /\ \A a \in tables.business_analytics : a.businessId # b
        t == IF ok THEN [tables EXCEPT !.business_analytics =
                            @ \cup {[id |-> i, businessId |-> b]}]
             ELSE tables
    IN /\ tables' = Ran(t, "insert analytics", ok)
       /\ UNCHANGED <<users, outsideTables>>

\* INSERT INTO upi_transactions: businessId references businesses(id)
InsertUpi(i, b) ==
    LET ok == i \notin Ids(tables.upi_transactions) /\ b \in Ids(tables.businesses)
        t == IF ok THEN [tables EXCEPT !.upi_transactions =
                            @ \cup {[id |-> i, businessId |-> b]}]
             ELSE tables
    IN /\ tables' = Ran(t, "insert upi", ok)
       /\ UNCHANGED <<users, outsideTables>>

\* The tables once the businesses gone and the users gone are removed with
\* everything that references them (ON DELETE CASCADE).
Cascade(t, goneUsers, goneBusinesses) ==
    [t EXCEPT
       !.businesses = { x \in @ : x.id \notin goneBusinesses },
       !.reviews = { x \in @ : x.businessId \notin goneBusinesses
                               /\ x.reviewerId \notin goneUsers },
       !.endorsements = { x \in @ : x.businessId \notin goneBusinesses
                                    /\ x.endorserId \notin goneUsers },
       !.business_analytics = { x \in @ : x.businessId \notin goneBusinesses },
       !.upi_transactions = { x \in @ : x.businessId \notin goneBusinesses }]

BusinessesOf(t, u) == { x.id : x \in { y \in t.businesses : y.ownerId = u } }

\* Variant: deleting a user removes the user's businesses but not the rows
\* that reference those businesses.
DeleteUser_OneLevel(u) ==
    /\ u \in DOMAIN users
    /\ users' = [x \in DOMAIN users \ {u} |-> users[x]]
    /\ tables' = Ran([Cascade(tables, {u}, {}) EXCEPT
                        !.businesses = { x \in @ : x.ownerId # u }],
                     "delete user", TRUE)
    /\ UNCHANGED outsideTables

\* DELETE FROM users WHERE id = u
DeleteUser(u) ==
    /\ u \in DOMAIN users
    /\ users' = [x \in DOMAIN users \ {u} |-> users[x]]
    /\ tables' = Ran(Cascade(tables, {u}, BusinessesOf(tables, u)),
                     "delete user", TRUE)
    /\ UNCHANGED outsideTables

\* DELETE FROM businesses WHERE id = b
DeleteBusiness(b) ==
    /\ b \in Ids(tables.businesses)
    /\ tables' = Ran(Cascade(tables, {}, {b}), "delete business", TRUE)
    /\ UNCHANGED <<users, outsideTables>>

\* DELETE of a row of a table nothing references
DeleteRow(name, i) ==
    /\ name \in TableNames \ {"businesses"}
    /\ i \in Ids(tables[name])
    /\ tables' = Ran([tables EXCEPT ![name] = { x \in @ : x.id # i }],
                     "delete row", TRUE)
    /\ UNCHANGED <<users, outsideTables>>

NextSchema ==
    \/ \E u \in UserIds : InsertUser(u)
    \/ \E b \in BusinessIds, u \in UserIds : InsertBusiness(b, u)
    \/ \E i \in ReviewIds, b \in BusinessIds, u \in UserIds : InsertReview(i, b, u)
    \/ \E i \in EndorsementIds, b \in BusinessIds, u \in UserIds :
          InsertEndorsement(i, b, u)
    \/ \E i \in AnalyticsIds, b \in BusinessIds : InsertAnalytics(i, b)
    \/ \E i \in UpiIds, b \in BusinessIds : InsertUpi(i, b)
    \/ \E u \in UserIds : DeleteUser(u)
    \/ \E b \in BusinessIds : DeleteBusiness(b)
    \/ \E name \in TableNames,
          i \in ReviewIds \cup EndorsementIds \cup AnalyticsIds \cup UpiIds :
          DeleteRow(name, i)

SpecSchema == InitOver(Requests) /\ [][NextSchema]_vars

\* Every foreign key of t points at an existing row.
ReferencesHold(us, t) ==
    /\ \A b \in t.businesses : b.ownerId \in DOMAIN us
    /\ \A x \in t.reviews :
          x.businessId \in Ids(t.businesses) /\ x.reviewerId \in DOMAIN us
    /\ \A x \in t.endorsements :
          x.businessId \in Ids(t.businesses) /\ x.endorserId \in DOMAIN us
    /\ \A x \in t.business_analytics : x.businessId \in Ids(t.businesses)
    /\ \A x \in t.upi_transactions : x.businessId \in Ids(t.businesses)

\* The rows of t that reference one of the businesses bs.
RowsOfBusinesses(t, bs) ==
    { x \in t.reviews \cup t.endorsements \cup t.business_analytics
              \cup t.upi_transactions : x.businessId \in bs }

\* C27: after any sequence of inserts and deletes every foreign key points
\* at an existing row; a step that deletes a user removes the user's
\* businesses and every row that references one of them, and keeps the
\* businesses of the other users.
C27_CascadeKeepsReferences ==
    /\ [](ReferencesHold(users, tables))
    /\ [][\A u \in DOMAIN users :
            u \notin DOMAIN users' =>
               /\ BusinessesOf(tables', u) = {}
               /\ RowsOfBusinesses(tables', BusinessesOf(tables, u)) = {}
               /\ tables'.businesses =
                     { b \in tables.businesses : b.ownerId # u }]_vars

\* u1 was deleted, which removed rows of other tables, while u2's own
\* business is still there.
C27_Witness ==
    /\ tables.last.stmt = "delete user"
    /\ tables.last.removed >= 3
    /\ DOMAIN users = {"u2"}
    /\ tables.businesses # {}

\* The endorsements of t for the pair of row.
SamePair(t, row) ==
    { e \in t.endorsements :
        e.businessId = row.businessId /\ e.endorserId = row.endorserId }

\* C28: the endorsements table never holds two rows for one (business,
\* endorser) pair; an insert for a pair that is already there is rejected
\* and leaves the table as it was.
C28_OneEndorsementPerPair ==
    /\ [](\A e \in tables.endorsements : SamePair(tables, e) = {e})
    /\ [][(tables'.last.stmt = "insert endorsement"
             /\ SamePair(tables, tables'.last.row) # {}) =>
            /\ ~tables'.last.ok
            /\ tables'.endorsements = tables.endorsements
            /\ users' = users]_vars

\* A second endorsement of the same business by the same user, under a
\* fresh id, was rejected.
C28_Witness ==
    /\ tables.last.stmt = "insert endorsement"
    /\ ~tables.last.ok
    /\ tables.last.row.id \notin Ids(tables.endorsements)
    /\ tables.last.row.businessId \in Ids(tables.businesses)
    /\ tables.last.row.endorserId \in DOMAIN users
    /\ Cardinality(SamePair(tables, tables.last.row)) = 1
====
